---------------------------- MODULE Spec2Model ----------------------------
(***************************************************************************)
(* bulldozer: harvest the ArcGIS Server logs page by page, aggregate them  *)
(* into a frequency table, write the table as a csv report, optionally     *)
(* mail the report and clean the server's logs (src/bulldozer.py).         *)
(*                                                                         *)
(* Python values are modelled as follows.  A str whose characters matter   *)
(* (a log message, a csv cell) is the sequence of its characters.  A dict  *)
(* decoded from JSON is a function from its keys, so `k in d.keys()` is    *)
(* k \in DOMAIN d.  A name that holds None or a value holds <<>> or <<v>>. *)
(***************************************************************************)
EXTENDS Integers, Sequences, FiniteSets, TLC

\* ------------------------------------------------------------------ bounds
\* longest message handed to clean_message in SpecClean
MaxLen == 4
\* log-query requests one process issues (the server's log is finite)
MaxPages == 3
\* calls of ship() in one process in SpecRerun
MaxRuns == 2
\* largest count of a key in the tables SpecWrite writes
MaxCount == 3

\* ------------------------------------------------------------ optional values
None == <<>>

Some(v) == <<v>>

IsNone(o) == o = <<>>

\* ---------------------------------------------------------------- messaging
\* the grave accent U+0060, which a TLA+ string literal cannot hold
Backtick == "grave"

\* characters a raw message is made of: a letter, the three characters
\* clean_message rewrites and the two line terminators it splits on
Chars == {"a", " ", ",", "'", "\n", "\r"}

RECURSIVE StringsOfLen(_)
StringsOfLen(n) ==
    IF n = 0 THEN {<<>>}
    ELSE {Append(s, c) : s \in StringsOfLen(n - 1), c \in Chars}

Strings == UNION {StringsOfLen(n) : n \in 0..MaxLen}

\* a message of two lines with commas, doubled spaces and a quote
ExampleMessage ==
    <<"l", "i", "n", "e", "1", "\n", "l", "i", "n", "e", "2", ",", "w",
      "i", "t", "h", ",", "c", "o", "m", "m", "a", "s", " ", " ", "d", "o",
      "u", "b", "l", "e", " ", " ", "s", "p", "a", "c", "e", "'", "s">>

\* str.splitlines(): the lines of s without their terminators; "\r\n" is one
\* terminator, and a terminator that ends s opens no further line
RECURSIVE SplitFrom(_, _, _)
SplitFrom(s, i, cur) ==
    IF i > Len(s) THEN (IF cur = <<>> THEN <<>> ELSE <<cur>>)
    ELSE IF s[i] = "\n" THEN <<cur>> \o SplitFrom(s, i + 1, <<>>)
    ELSE IF s[i] = "\r" THEN
        <<cur>> \o SplitFrom(s, IF i < Len(s) /\ s[i + 1] = "\n" THEN i + 2 ELSE i + 1, <<>>)
    ELSE SplitFrom(s, i + 1, Append(cur, s[i]))

splitlines(s) == SplitFrom(s, 1, <<>>)

\* sep.join(parts)
RECURSIVE join(_, _)
join(sep, parts) ==
    IF parts = <<>> THEN <<>>
    ELSE IF Len(parts) = 1 THEN parts[1]
    ELSE parts[1] \o sep \o join(sep, Tail(parts))

\* str.replace(old, new) for a one-character old
replace_char(s, old, new) == [i \in 1..Len(s) |-> IF s[i] = old THEN new ELSE s[i]]

\* str.replace('  ', ' '): one left-to-right pass over the non-overlapping
\* occurrences of two spaces
RECURSIVE ReplaceDoubleFrom(_, _)
ReplaceDoubleFrom(s, i) ==
    IF i > Len(s) THEN <<>>
    ELSE IF i < Len(s) /\ s[i] = " " /\ s[i + 1] = " "
        THEN <<" ">> \o ReplaceDoubleFrom(s, i + 2)
    ELSE <<s[i]>> \o ReplaceDoubleFrom(s, i + 1)

\* a replacement that goes on until no two spaces are left side by side
RECURSIVE replace_double_space_all(_)
replace_double_space_all(s) ==
    LET once == ReplaceDoubleFrom(s, 1)
    IN  IF once = s THEN s ELSE replace_double_space_all(once)

replace_double_space(s) == ReplaceDoubleFrom(s, 1)

clean_message(string) ==
    LET joined == join(<<" ">>, splitlines(string))
    IN  replace_char(replace_double_space(replace_char(joined, ",", "-")), "'", Backtick)

\* ------------------------------------------------------------ python helpers
\* str(n) for n >= 0, as csv.writer formats a number cell
Digit(d) == CASE d = 0 -> "0" [] d = 1 -> "1" [] d = 2 -> "2" [] d = 3 -> "3"
              [] d = 4 -> "4" [] d = 5 -> "5" [] d = 6 -> "6" [] d = 7 -> "7"
              [] d = 8 -> "8" [] d = 9 -> "9"

RECURSIVE str(_)
str(n) == IF n < 10 THEN <<Digit(n)>> ELSE Append(str(n \div 10), Digit(n % 10))

\* int(cell): what a reader of the report parses a number cell to
DigitValue(c) == CHOOSE d \in 0..9 : Digit(d) = c

RECURSIVE int(_)
int(cell) ==
    IF Len(cell) = 1 THEN DigitValue(cell[1])
    ELSE 10 * int(SubSeq(cell, 1, Len(cell) - 1)) + DigitValue(cell[Len(cell)])

\* bool(d) of a dict, bool(n) of a number, bool(s) of a str, each possibly None
TruthyDict(o) == ~IsNone(o) /\ DOMAIN o[1] # {}

TruthyNumber(o) == ~IsNone(o) /\ o[1] # 0

TruthyStr(o) == ~IsNone(o) /\ o[1] # ""

\* --------------------------------------------------------------- the server
\* raw log records of the server: the first two differ in raw message and
\* in time only, the third differs in severity and message
LogRecords == {
    [type |-> "WARNING", source |-> "Server", code |-> 9003,
     message |-> <<"a", "\n", "a">>, methodName |-> "m", time |-> 1],
    [type |-> "WARNING", source |-> "Server", code |-> 9003,
     message |-> <<"a", " ", "a">>, methodName |-> "m", time |-> 2],
    [type |-> "SEVERE", source |-> "Server", code |-> 9003,
     message |-> <<"a", ",", "a">>, methodName |-> "m", time |-> 1]}

RECURSIVE RecordsOfLen(_)
RecordsOfLen(n) ==
    IF n = 0 THEN {<<>>}
    ELSE {Append(s, r) : s \in RecordsOfLen(n - 1), r \in LogRecords}

\* numbers of log records a page carries (the code asks for pageSize = 10000)
PageLengths == {0, 1, 2}

\* the logMessages a page can carry
PageContents == UNION {RecordsOfLen(n) : n \in PageLengths}

\* endTime values: a JSON number, 0 included
Cursors == {0, 1}

\* the envelope of a server-reported error
ErrorEnvelopes == {
    [status |-> "error", messages |-> <<"Token Expired.">>],
    [status |-> "error", messages |-> <<"Could not access any server machines.", "Try again.">>]}

\* the envelope of a successful log query: logMessages, and hasMore with
\* endTime or neither; the last page the server has reports no more
PageEnvelopes(last) ==
    {[logMessages |-> m] : m \in PageContents}
    \cup {[logMessages |-> m, hasMore |-> h, endTime |-> c] :
            m \in PageContents, h \in (IF last THEN {FALSE} ELSE BOOLEAN), c \in Cursors}

\* what requests.post(...) followed by raise_for_status() and json() gives:
\* None for a RequestException, else the decoded envelope
QueryReplies(last) ==
    {None} \cup {Some(e) : e \in ErrorEnvelopes \cup PageEnvelopes(last)}

TokenReplies == {None} \cup {Some(e) : e \in ErrorEnvelopes \cup {[token |-> "tok"]}}

CleanReplies == {None} \cup {Some(e) : e \in ErrorEnvelopes \cup {[status |-> "success"]}}

\* send_email's result: nothing sent (a setting is missing), sent, or the
\* error SendGrid raised
MailResults == {"None", "response", "error"}

\* -------------------------------------------------------------- bulldozer
\* '; '.join(messages)
RECURSIVE join_str(_, _)
join_str(sep, parts) ==
    IF parts = <<>> THEN ""
    ELSE IF Len(parts) = 1 THEN parts[1]
    ELSE parts[1] \o sep \o join_str(sep, Tail(parts))

return_false_for_status(json_response) ==
    IF "status" \in DOMAIN json_response /\ json_response.status = "error"
    THEN IF \E i \in 1..Len(json_response.messages) : json_response.messages[i] = "Token Expired."
         THEN <<FALSE, "Token expired">>
         ELSE <<FALSE, join_str("; ", json_response.messages)>>
    ELSE <<TRUE, "">>

\* get_token on the reply to its request: the token, or None
get_token(reply) ==
    IF IsNone(reply) THEN None
    ELSE IF ~return_false_for_status(reply[1])[1] THEN None
    ELSE Some(reply[1].token)

\* a get_log_messages that returns endTime whenever the envelope has one
get_log_messages_any_end_time(reply) ==
    IF IsNone(reply) THEN <<None, None>>
    ELSE IF ~return_false_for_status(reply[1])[1] THEN <<None, None>>
    ELSE <<Some(reply[1]),
           IF "endTime" \in DOMAIN reply[1] THEN Some(reply[1].endTime) ELSE None>>

\* get_log_messages on the reply to its request: <<data, start_time>>
get_log_messages(reply) ==
    IF IsNone(reply) THEN <<None, None>>
    ELSE IF ~return_false_for_status(reply[1])[1] THEN <<None, None>>
    ELSE LET data == reply[1]
             more_pages == IF "hasMore" \in DOMAIN data THEN data.hasMore ELSE FALSE
             start_time == IF more_pages THEN Some(data.endTime) ELSE None
         IN  <<Some(data), start_time>>

\* a key that keeps the raw message
Message_raw(message) ==
    [severity |-> message.type, source |-> message.source, code |-> message.code,
     message |-> message.message, methodname |-> message.methodName]

\* Message(type, source, code, clean_message(message), methodName)
Message(message) ==
    [severity |-> message.type, source |-> message.source, code |-> message.code,
     message |-> clean_message(message.message), methodname |-> message.methodName]

\* LOGS is a dict: its items in insertion order
HasKey(table, key) == \E i \in 1..Len(table) : table[i].key = key

\* a count that sets a new key to 1 and leaves a known key alone
Count1_first_only(table, stripped) ==
    IF HasKey(table, stripped) THEN table
    ELSE Append(table, [key |-> stripped, count |-> 1])

\* LOGS.setdefault(stripped, 0); LOGS[stripped] += 1
Count1(table, stripped) ==
    LET withKey == IF HasKey(table, stripped) THEN table
                   ELSE Append(table, [key |-> stripped, count |-> 0])
    IN  [i \in 1..Len(withKey) |->
            IF withKey[i].key = stripped
            THEN [withKey[i] EXCEPT !.count = @ + 1] ELSE withKey[i]]

RECURSIVE PruneFrom(_, _, _)
PruneFrom(messages, i, table) ==
    IF i > Len(messages) THEN table
    ELSE PruneFrom(messages, i + 1, Count1(table, Message(messages[i])))

\* prune(data) does data['logMessages'], a TypeError when data is None
prune_raises(logs) == IsNone(logs)

prune(data, table) == PruneFrom(data.logMessages, 1, table)

\* sorted(logs.items(), key=count, reverse=True): stable, so items of equal
\* count keep their order
\* an insertion that puts an item before the items of equal count
RECURSIVE InsertDesc_strict(_, _)
InsertDesc_strict(sorted, item) ==
    IF sorted = <<>> THEN <<item>>
    ELSE IF Head(sorted).count > item.count
        THEN <<Head(sorted)>> \o InsertDesc_strict(Tail(sorted), item)
    ELSE <<item>> \o sorted

RECURSIVE InsertDesc(_, _)
InsertDesc(sorted, item) ==
    IF sorted = <<>> THEN <<item>>
    ELSE IF Head(sorted).count >= item.count
        THEN <<Head(sorted)>> \o InsertDesc(Tail(sorted), item)
    ELSE <<item>> \o sorted

RECURSIVE SortedFrom(_, _, _)
SortedFrom(items, i, acc) ==
    IF i > Len(items) THEN acc ELSE SortedFrom(items, i + 1, InsertDesc(acc, items[i]))

frequencies(logs) == SortedFrom(logs, 1, <<>>)

HeaderRow == <<"severity", "source", "code", "message", "method name", "frequency">>

\* the row csv.writer writes for one item: str() of the number cells
DataRow(item) ==
    [severity |-> item.key.severity, source |-> item.key.source,
     code |-> str(item.key.code), message |-> item.key.message,
     methodname |-> item.key.methodname, frequency |-> str(item.count)]

\* the content write_logs leaves in to_file, opened with 'w'
write_logs(logs) ==
    LET sorted == frequencies(logs)
    IN  [header |-> HeaderRow, rows |-> [i \in 1..Len(sorted) |-> DataRow(sorted[i])]]

\* ------------------------------------------------------------------ state
VARIABLES
    pc,             \* where ship() is
    registered,     \* server_name_token in SERVER_TOKENS
    remove_logs,    \* --clean
    send_mail,      \* --email
    token,          \* ship's token
    options,        \* ship's options dict
    logs,           \* ship's logs
    more,           \* ship's more
    LOGS,           \* the module-level dict, items in insertion order
    file,           \* the report <machine>.csv: None while it does not exist
    tokenReplies,   \* replies to this run's token requests
    queries,        \* the options of this run's log queries, as sent
    replies,        \* replies to this run's log queries
    writes,         \* times this run opened the report for writing
    mails,          \* results of this run's send_email calls
    cleans,         \* replies to this run's clean requests
    ingested,       \* the records prune counted since the process started
    fetches,        \* log queries issued since the process started
    runs,           \* calls of ship() since the process started
    string,         \* SpecClean: the message given to clean_message
    cleaned,        \* SpecClean: clean_message(string)
    recleaned       \* SpecClean: clean_message of that

args == <<registered, remove_logs, send_mail>>

locals == <<token, options, logs, more>>

history == <<tokenReplies, queries, replies, writes, mails, cleans>>

process == <<LOGS, file, ingested, fetches, runs>>

cleanvars == <<string, cleaned, recleaned>>

vars == <<pc, args, locals, history, process, cleanvars>>

\* a fresh call of ship(): nothing requested, written or sent yet
FreshCall ==
    /\ pc = "Start"
    /\ token = None /\ options = <<>> /\ logs = None /\ more = None
    /\ tokenReplies = <<>> /\ queries = <<>> /\ replies = <<>>
    /\ writes = 0 /\ mails = <<>> /\ cleans = <<>>

\* a fresh process: the module was just imported (LOGS = {})
FreshProcess ==
    /\ LOGS = <<>> /\ file = None /\ ingested = <<>> /\ fetches = 0 /\ runs = 1

Init ==
    /\ FreshCall /\ FreshProcess
    /\ registered \in BOOLEAN /\ remove_logs \in BOOLEAN /\ send_mail \in BOOLEAN
    /\ string = <<>> /\ cleaned = None /\ recleaned = None

\* --------------------------------------------------------------------- ship
\* lines 50-55: an unknown machine is a warning and a return
CheckMachine ==
    /\ pc = "Start"
    /\ pc' = IF registered THEN "Authenticating" ELSE "Aborted"
    /\ UNCHANGED <<args, locals, history, process, cleanvars>>

\* ship() without the token check
after_token_unchecked(tok) == "FirstFetch"

\* a ship() that asks for a token again when it got none
after_token_retry(tok) == IF ~TruthyStr(tok) THEN "Authenticating" ELSE "FirstFetch"

\* lines 58-61: `if not token: return`
after_token(tok) == IF ~TruthyStr(tok) THEN "Aborted" ELSE "FirstFetch"

\* lines 57-68
Authenticate ==
    /\ pc = "Authenticating"
    /\ \E reply \in TokenReplies :
        /\ tokenReplies' = Append(tokenReplies, reply)
        /\ token' = get_token(reply)
        /\ pc' = after_token(token')
        /\ options' = IF TruthyStr(token')
                      THEN [filter |-> "{}", token |-> token'[1], pageSize |-> 10000,
                            level |-> "WARNING", f |-> "json"]
                      ELSE options
    /\ UNCHANGED <<args, logs, more, queries, replies, writes, mails, cleans,
                   process, cleanvars>>

\* ship() giving up on a first page that carries no record
first_fetch_failed_or_empty(data, start_time) ==
    IsNone(start_time) /\ (IsNone(data) \/ data[1].logMessages = <<>>)

\* ship() without the check of the first fetch, as main() is in src/main.py
first_fetch_failed_unchecked(data, start_time) == FALSE

\* lines 74-77: `if logs is None and more is None: return`
first_fetch_failed(data, start_time) == IsNone(data) /\ IsNone(start_time)

\* lines 72-80
FirstFetch ==
    /\ pc = "FirstFetch"
    /\ \E reply \in QueryReplies(fetches + 1 >= MaxPages) :
        LET got == get_log_messages(reply)
        IN  /\ queries' = Append(queries, options)
            /\ replies' = Append(replies, reply)
            /\ fetches' = fetches + 1
            /\ logs' = got[1]
            /\ more' = got[2]
            /\ IF first_fetch_failed(got[1], got[2])
               THEN /\ pc' = "Aborted"
                    /\ UNCHANGED <<LOGS, ingested>>
               ELSE /\ pc' = "Harvesting"
                    /\ IF TruthyDict(got[1])
                       THEN /\ LOGS' = prune(got[1][1], LOGS)
                            /\ ingested' = ingested \o got[1][1].logMessages
                       ELSE UNCHANGED <<LOGS, ingested>>
    /\ UNCHANGED <<args, token, options, tokenReplies, writes, mails, cleans,
                   file, runs, cleanvars>>

\* line 82: `while logs and more`
while_condition(data, start_time) == TruthyDict(data) /\ TruthyNumber(start_time)

\* a loop that sends the options of the query before
next_options_unset(opts, start_time) == opts

\* line 84: options['startTime'] = more
next_options(opts, start_time) == ("startTime" :> start_time) @@ opts

\* lines 82-86: one turn of the loop
NextFetch ==
    /\ pc = "Harvesting"
    /\ while_condition(logs, more)
    /\ options' = next_options(options, more[1])
    /\ \E reply \in QueryReplies(fetches + 1 >= MaxPages) :
        LET got == get_log_messages(reply)
        IN  /\ queries' = Append(queries, options')
            /\ replies' = Append(replies, reply)
            /\ fetches' = fetches + 1
            /\ logs' = got[1]
            /\ more' = got[2]
            /\ IF prune_raises(got[1])
               THEN /\ pc' = "Raised"
                    /\ UNCHANGED <<LOGS, ingested>>
               ELSE /\ pc' = "Harvesting"
                    /\ LOGS' = prune(got[1][1], LOGS)
                    /\ ingested' = ingested \o got[1][1].logMessages
    /\ UNCHANGED <<args, token, tokenReplies, writes, mails, cleans,
                   file, runs, cleanvars>>

\* a ship() that cleans the logs before it mails the report
after_write_clean_first(mail, remove) ==
    IF remove THEN "Cleaning" ELSE IF mail THEN "Notifying" ELSE "Done"

\* lines 90, 97: the stage after the report is written
after_write(mail, remove) ==
    IF mail THEN "Notifying" ELSE IF remove THEN "Cleaning" ELSE "Done"

\* line 88, reached when the loop's condition is false
WriteLogs ==
    /\ pc = "Harvesting"
    /\ ~while_condition(logs, more)
    /\ file' = Some(write_logs(LOGS))
    /\ writes' = writes + 1
    /\ pc' = after_write(send_mail, remove_logs)
    /\ UNCHANGED <<args, locals, tokenReplies, queries, replies, mails, cleans,
                   LOGS, ingested, fetches, runs, cleanvars>>

\* a ship() that returns when the mail was not sent
after_notify_checked(result, remove) ==
    IF result # "response" THEN "Done" ELSE IF remove THEN "Cleaning" ELSE "Done"

\* lines 92-97: send_email's result is dropped, the clean stage is next
after_notify(result, remove) == IF remove THEN "Cleaning" ELSE "Done"

\* lines 90-95: send_email returns whatever happened, it raises nothing
Notify ==
    /\ pc = "Notifying"
    /\ \E result \in MailResults :
        /\ mails' = Append(mails, result)
        /\ pc' = after_notify(result, remove_logs)
    /\ UNCHANGED <<args, locals, tokenReplies, queries, replies, writes, cleans,
                   process, cleanvars>>

\* clean_logs on the reply to its request: what it logs before it returns
clean_logs(reply) ==
    IF IsNone(reply) THEN "Unable to reach the server"
    ELSE IF ~return_false_for_status(reply[1])[1] THEN "Error cleaning logs"
    ELSE "logs cleared"

\* a ship() that lets a failed clean end the run with an exception
after_clean_fatal(logged) == IF logged = "logs cleared" THEN "Done" ELSE "Raised"

\* lines 98-100: whatever clean_logs logged, ship() logs 'done' and returns
after_clean(logged) == "Done"

\* lines 97-100 and clean_logs: a failed clean is logged, nothing more
CleanLogs ==
    /\ pc = "Cleaning"
    /\ \E reply \in CleanReplies :
        /\ cleans' = Append(cleans, reply)
        /\ pc' = after_clean(clean_logs(reply))
    /\ UNCHANGED <<args, locals, tokenReplies, queries, replies, writes, mails,
                   process, cleanvars>>

Ship == CheckMachine \/ Authenticate \/ FirstFetch \/ NextFetch \/ WriteLogs
            \/ Notify \/ CleanLogs

Next == Ship

\* one call of ship() in a fresh process, as the command line makes it
Spec == Init /\ [][Next]_vars

\* ------------------------------------------------------------ ship(), again
Returned == pc \in {"Done", "Aborted", "Raised"}

\* the caller calls ship() once more, same arguments, in the same process:
\* the call's own state is fresh, the module's LOGS and the file are not
ShipAgain ==
    /\ Returned
    /\ runs < MaxRuns
    /\ fetches < MaxPages
    /\ runs' = runs + 1
    /\ pc' = "Start"
    /\ token' = None /\ options' = <<>> /\ logs' = None /\ more' = None
    /\ tokenReplies' = <<>> /\ queries' = <<>> /\ replies' = <<>>
    /\ writes' = 0 /\ mails' = <<>> /\ cleans' = <<>>
    /\ UNCHANGED <<args, LOGS, file, ingested, fetches, cleanvars>>

NextRerun == Ship \/ ShipAgain

SpecRerun == Init /\ [][NextRerun]_vars

\* -------------------------------------------------------------------- prune
\* prune on its own: the module's LOGS after any sequence of pages
InitPrune ==
    /\ FreshCall /\ FreshProcess
    /\ registered = TRUE /\ remove_logs = FALSE /\ send_mail = FALSE
    /\ string = <<>> /\ cleaned = None /\ recleaned = None

Prune ==
    /\ fetches < MaxPages
    /\ \E messages \in PageContents :
        /\ LOGS' = prune([logMessages |-> messages], LOGS)
        /\ ingested' = ingested \o messages
    /\ fetches' = fetches + 1
    /\ UNCHANGED <<pc, args, locals, history, file, runs, cleanvars>>

NextPrune == Prune

SpecPrune == InitPrune /\ [][NextPrune]_vars

\* --------------------------------------------------------------- write_logs
\* keys of the tables write_logs is given on its own
TableKeys ==
    {[severity |-> sv, source |-> "Server", code |-> 9003, message |-> <<"a">>,
      methodname |-> "m"] : sv \in {"SEVERE", "WARNING", "FINE"}}

\* a dict as prune leaves it: each key once, every count at least 1
Tables ==
    UNION {{t \in [1..n -> [key : TableKeys, count : 1..MaxCount]] :
                \A i, j \in 1..n : t[i].key = t[j].key => i = j} :
           n \in 0..Cardinality(TableKeys)}

InitWrite ==
    /\ FreshCall
    /\ LOGS \in Tables /\ file = None /\ ingested = <<>> /\ fetches = 0 /\ runs = 1
    /\ registered = TRUE /\ remove_logs = FALSE /\ send_mail = FALSE
    /\ string = <<>> /\ cleaned = None /\ recleaned = None

WriteReport ==
    /\ IsNone(file)
    /\ file' = Some(write_logs(LOGS))
    /\ writes' = writes + 1
    /\ UNCHANGED <<pc, args, locals, tokenReplies, queries, replies, mails, cleans,
                   LOGS, ingested, fetches, runs, cleanvars>>

NextWrite == WriteReport

SpecWrite == InitWrite /\ [][NextWrite]_vars

\* ------------------------------------------------------------ clean_message
InitClean ==
    /\ FreshCall /\ FreshProcess
    /\ registered = TRUE /\ remove_logs = FALSE /\ send_mail = FALSE
    /\ string \in Strings \cup {ExampleMessage} /\ cleaned = None /\ recleaned = None

Clean ==
    /\ IsNone(cleaned)
    /\ cleaned' = Some(clean_message(string))
    /\ UNCHANGED <<pc, args, locals, history, process, string, recleaned>>

CleanAgain ==
    /\ ~IsNone(cleaned) /\ IsNone(recleaned)
    /\ recleaned' = Some(clean_message(cleaned[1]))
    /\ UNCHANGED <<pc, args, locals, history, process, string, cleaned>>

NextClean == Clean \/ CleanAgain

SpecClean == InitClean /\ [][NextClean]_vars

\* ------------------------------------------------------------- properties
\* a reply that is a transport failure or a server-reported error
IsFailure(reply) == IsNone(reply) \/ reply[1] \in ErrorEnvelopes

\* a reply that is a page of log records
IsPage(reply) == ~IsNone(reply) /\ "logMessages" \in DOMAIN reply[1]

\* a page that reports more data
HasMore(reply) == IsPage(reply) /\ "hasMore" \in DOMAIN reply[1] /\ reply[1].hasMore

LastReply == replies[Len(replies)]

\* the report has been written in this run
Written == pc \in {"Notifying", "Cleaning", "Done"}

\* C1: when the first page was fetched and a later log query fails, the run
\* does not raise or abort: the failed result is aggregated as nothing, the
\* table still holds what the earlier pages gave, and the report written
\* is the report of that table.
C1_MidHarvestFailureIsWritten ==
    (Len(replies) > 1 /\ IsFailure(LastReply))
        => /\ pc \notin {"Raised", "Aborted"}
           /\ Written => file = Some(write_logs(LOGS))

\* C2: whatever the token, query and clean requests answer, ship() returns
\* normally: no exception leaves it.
C2_ShipNeverRaises == pc # "Raised"

\* C3: when get_token yields no token, ship() has returned and has issued
\* no log query, has not opened the report, sent no mail and issued no clean
\* request.
C3_NoTokenNoEffects ==
    (tokenReplies # <<>> /\ IsFailure(tokenReplies[1]))
        => /\ pc = "Aborted"
           /\ queries = <<>> /\ replies = <<>>
           /\ writes = 0 /\ file = None
           /\ mails = <<>> /\ cleans = <<>>

C3_Witness ==
    /\ pc = "Aborted"
    /\ Len(tokenReplies) = 1
    /\ ~IsNone(tokenReplies[1]) /\ tokenReplies[1][1] \in ErrorEnvelopes
    /\ send_mail /\ remove_logs

\* C4: when the first log query of the run fails, ship() has returned and
\* has issued no further query, has not opened the report, sent no mail and
\* issued no clean request, whatever was requested.
C4_FirstFetchFailureAborts ==
    (replies # <<>> /\ IsFailure(replies[1]))
        => /\ pc = "Aborted"
           /\ Len(queries) = 1 /\ Len(replies) = 1
           /\ writes = 0 /\ file = None
           /\ mails = <<>> /\ cleans = <<>>

C4_Witness ==
    /\ pc = "Aborted"
    /\ Len(replies) = 1 /\ IsFailure(replies[1])
    /\ send_mail /\ remove_logs

\* C5: when the first page is fetched and carries no record and no further
\* data, ship() fetches nothing more, does not abort, writes a report that
\* is the header row alone, and goes on to the mail and the clean that were
\* requested.
EmptyFirstPage ==
    /\ replies # <<>> /\ IsPage(replies[1])
    /\ replies[1][1].logMessages = <<>> /\ ~HasMore(replies[1])

C5_EmptyFirstPageIsWritten ==
    EmptyFirstPage
        => /\ Len(replies) = 1
           /\ pc \in {"Harvesting", "Notifying", "Cleaning", "Done"}
           /\ Written => (writes = 1 /\ file = Some([header |-> HeaderRow, rows |-> <<>>]))
           /\ pc \in {"Cleaning", "Done"} => Len(mails) = (IF send_mail THEN 1 ELSE 0)
           /\ pc = "Cleaning" => remove_logs
           /\ pc = "Done" => Len(cleans) = (IF remove_logs THEN 1 ELSE 0)

C5_Witness ==
    /\ EmptyFirstPage /\ pc = "Done"
    /\ send_mail /\ remove_logs
    /\ file = Some([header |-> HeaderRow, rows |-> <<>>])

\* every log query of the run was answered with a page
AllPages == \A i \in 1..Len(replies) : IsPage(replies[i])

\* C6: when the server answers with n pages, all but the last reporting
\* hasMore = true with an endTime, the loop makes exactly n queries: it asks
\* nothing after a page without hasMore = true, and it does not stop at a
\* page with hasMore = true, whatever its endTime.
C6_ExactlyNFetches ==
    (replies # <<>> /\ AllPages)
        => /\ \A i \in 1..(Len(replies) - 1) : HasMore(replies[i])
           /\ Written => ~HasMore(LastReply)

RECURSIVE SumFrequencies(_)
SumFrequencies(rows) ==
    IF rows = <<>> THEN 0 ELSE int(Head(rows).frequency) + SumFrequencies(Tail(rows))

RECURSIVE TotalRecords(_)
TotalRecords(rs) ==
    IF rs = <<>> THEN 0 ELSE Len(Head(rs)[1].logMessages) + TotalRecords(Tail(rs))

\* C7: in a run whose log queries all succeeded, the frequencies of the
\* data rows of the report written sum to the number of log records in all
\* the pages the run fetched.
C7_ReportCoversAllPages ==
    (Written /\ AllPages) => SumFrequencies(file[1].rows) = TotalRecords(replies)

C7_Witness ==
    /\ Written /\ AllPages /\ Len(replies) = 3
    /\ \A i \in 1..3 : replies[i][1].logMessages # <<>>
    /\ \E i \in 1..Len(file[1].rows) : int(file[1].rows[i].frequency) >= 2
    /\ Len(file[1].rows) = 2

\* a raw record normalizes to a key: the fields are equal, the message once
\* cleaned, and the time is not looked at
NormalizesTo(r, key) ==
    /\ r.type = key.severity /\ r.source = key.source /\ r.code = key.code
    /\ clean_message(r.message) = key.message /\ r.methodName = key.methodname

NumIngested(key) ==
    Cardinality({i \in 1..Len(ingested) : NormalizesTo(ingested[i], key)})

\* C8: after prune has aggregated any sequence of pages the table holds,
\* for every key, the number of ingested records that normalize to it,
\* whatever their times: each key once, with that count, never below 1,
\* and a key for every ingested record.
C8_TableCountsIngested ==
    /\ \A i \in 1..Len(LOGS) :
        /\ LOGS[i].count = NumIngested(LOGS[i].key)
        /\ LOGS[i].count >= 1
        /\ \A j \in 1..Len(LOGS) : LOGS[j].key = LOGS[i].key => j = i
    /\ \A i \in 1..Len(ingested) :
        \E j \in 1..Len(LOGS) : NormalizesTo(ingested[i], LOGS[j].key)

C8_Witness ==
    /\ Len(LOGS) = 2
    /\ \E i, j \in 1..Len(ingested) :
        /\ ingested[i].time # ingested[j].time
        /\ ingested[i].message # ingested[j].message
        /\ \E k \in 1..Len(LOGS) :
            /\ NormalizesTo(ingested[i], LOGS[k].key)
            /\ NormalizesTo(ingested[j], LOGS[k].key)
            /\ LOGS[k].count >= 3

\* C9: every call of ship() starts from an empty table, and the report a
\* call writes counts the records of that call's pages alone.
C9_EveryRunStartsEmpty ==
    /\ pc = "Start" => LOGS = <<>>
    /\ (Written /\ AllPages /\ runs > 1)
            => SumFrequencies(file[1].rows) = TotalRecords(replies)

\* C10: cleaning a cleaned message changes nothing.
C10_CleanMessageIdempotent ==
    ~IsNone(recleaned) => recleaned = cleaned

\* a data row is the row of a table item
RowOf(row, item) ==
    /\ row.severity = item.key.severity /\ row.source = item.key.source
    /\ int(row.code) = item.key.code /\ row.message = item.key.message
    /\ row.methodname = item.key.methodname /\ int(row.frequency) = item.count

\* where the item of a data row stands in the table
Position(row) == CHOOSE i \in 1..Len(LOGS) : RowOf(row, LOGS[i])

\* C11: the report is the header row, then one row per item of the table,
\* by frequency descending: no row has a smaller frequency than the next,
\* and rows of equal frequency stand in the table's insertion order.
C11_RowsByFrequencyDescending ==
    ~IsNone(file)
        => LET rows == file[1].rows
           IN  /\ file[1].header = HeaderRow
               /\ Len(rows) = Len(LOGS)
               /\ \A i \in 1..Len(LOGS) : \E j \in 1..Len(rows) : RowOf(rows[j], LOGS[i])
               /\ \A i \in 1..(Len(rows) - 1) :
                    int(rows[i].frequency) >= int(rows[i + 1].frequency)
               /\ \A i, j \in 1..Len(rows) :
                    (i < j /\ rows[i].frequency = rows[j].frequency)
                        => Position(rows[i]) < Position(rows[j])

C11_Witness ==
    /\ ~IsNone(file) /\ Len(LOGS) = 3
    /\ LOGS[1].count = LOGS[3].count /\ LOGS[2].count > LOGS[1].count
    /\ file[1].rows[1].severity = LOGS[2].key.severity
    /\ file[1].rows[2].severity = LOGS[1].key.severity

\* C12: when the clean request fails, the run is done all the same and the
\* report written before is still there, with the content it was given.
C12_FailedCleanIsNotFatal ==
    (cleans # <<>> /\ IsFailure(cleans[1]))
        => /\ pc = "Done"
           /\ writes = 1
           /\ file = Some(write_logs(LOGS))

C12_Witness ==
    /\ pc = "Done" /\ remove_logs
    /\ cleans = <<None>>
    /\ ~IsNone(file) /\ Len(file[1].rows) = 2

\* at most one write, one mail and one clean request in a run, and no query
\* after a query that failed
C13_NoRepeats ==
    /\ Len(tokenReplies) <= 1
    /\ writes <= 1 /\ Len(mails) <= 1 /\ Len(cleans) <= 1
    /\ \A i \in 1..(Len(replies) - 1) : ~IsFailure(replies[i])

\* C13 as claimed: a run issues exactly one token request, whatever the
\* machine, at most one write, mail and clean, and repeats no failed request.
C13_ExactlyOneTokenRequest ==
    /\ C13_NoRepeats
    /\ Returned => Len(tokenReplies) = 1

\* C13: a run for a registered machine issues exactly one token request, a
\* run for a machine that is not registered issues none; a run makes at most
\* one write, one mail and one clean request and repeats no failed request,
\* a query answered 'Token Expired.' included.
C13_OneTokenRequestIfRegistered ==
    /\ C13_NoRepeats
    /\ Returned => Len(tokenReplies) = (IF registered THEN 1 ELSE 0)

C13_Witness ==
    /\ pc = "Aborted" /\ registered
    /\ Len(tokenReplies) = 1 /\ Len(replies) = 1
    /\ LastReply = Some([status |-> "error", messages |-> <<"Token Expired.">>])

\* C14: the stages of a run come in the order token, queries, write, mail,
\* clean: a query is sent only with the token and before the write, the
\* report is written only after a query, the mail is sent only after the
\* write, and the clean request only after the write and, when a mail was
\* requested, after the mail.
C14_StageOrder ==
    [][/\ queries' # queries => (TruthyStr(token) /\ writes = 0 /\ mails = <<>> /\ cleans = <<>>)
       /\ tokenReplies' # tokenReplies => (queries = <<>> /\ writes = 0)
       /\ writes' # writes => (queries # <<>> /\ mails = <<>> /\ cleans = <<>>)
       /\ mails' # mails => (writes = 1 /\ ~IsNone(file) /\ cleans = <<>>)
       /\ cleans' # cleans => (writes = 1 /\ ~IsNone(file)
                                /\ Len(mails) = (IF send_mail THEN 1 ELSE 0))]_vars

C14_Witness ==
    /\ pc = "Done" /\ send_mail /\ remove_logs
    /\ Len(queries) = 3 /\ writes = 1 /\ Len(mails) = 1 /\ Len(cleans) = 1

\* length of the line terminator that starts at s[i], 0 when none does
TerminatorAt(s, i) ==
    IF s[i] = "\r" /\ i < Len(s) /\ s[i + 1] = "\n" THEN 2
    ELSE IF s[i] \in {"\n", "\r"} THEN 1 ELSE 0

\* the lines of s joined with single spaces: every line terminator becomes
\* one space, but for a terminator that ends s, which is dropped
RECURSIVE LinesJoinedFrom(_, _)
LinesJoinedFrom(s, i) ==
    IF i > Len(s) THEN <<>>
    ELSE IF TerminatorAt(s, i) = 0 THEN <<s[i]>> \o LinesJoinedFrom(s, i + 1)
    ELSE IF i + TerminatorAt(s, i) > Len(s) THEN <<>>
    ELSE <<" ">> \o LinesJoinedFrom(s, i + TerminatorAt(s, i))

\* every c1 of s replaced by c2
Swapped(s, c1, c2) == [i \in 1..Len(s) |-> IF s[i] = c1 THEN c2 ELSE s[i]]

\* number of spaces in a row from s[i] on
RECURSIVE SpacesAt(_, _)
SpacesAt(s, i) == IF i > Len(s) \/ s[i] # " " THEN 0 ELSE 1 + SpacesAt(s, i + 1)

\* doubled spaces collapsed to one: of k spaces in a row, every two become
\* one and an odd last one stays
RECURSIVE DoublesCollapsedFrom(_, _)
DoublesCollapsedFrom(s, i) ==
    IF i > Len(s) THEN <<>>
    ELSE IF s[i] # " " THEN <<s[i]>> \o DoublesCollapsedFrom(s, i + 1)
    ELSE [k \in 1..((SpacesAt(s, i) + 1) \div 2) |-> " "]
            \o DoublesCollapsedFrom(s, i + SpacesAt(s, i))

FourSteps(s) ==
    Swapped(DoublesCollapsedFrom(Swapped(LinesJoinedFrom(s, 1), ",", "-"), 1), "'", Backtick)

ExampleCleaned ==
    <<"l", "i", "n", "e", "1", " ", "l", "i", "n", "e", "2", "-", "w", "i",
      "t", "h", "-", "c", "o", "m", "m", "a", "s", " ", "d", "o", "u", "b",
      "l", "e", " ", "s", "p", "a", "c", "e", Backtick, "s">>

\* C15: clean_message(s) is s with its lines joined by single spaces, then
\* every comma made a hyphen, then doubled spaces collapsed to one, then
\* every single quote made a backtick; the example message gives
\* "line1 line2-with-commas double space`s".
C15_CleanMessageFourSteps ==
    ~IsNone(cleaned)
        => /\ cleaned[1] = FourSteps(string)
           /\ string = ExampleMessage => cleaned[1] = ExampleCleaned

C15_Witness ==
    /\ ~IsNone(cleaned)
    /\ string = <<"a", "\r", "\n", " ">>
    /\ cleaned[1] = <<"a", " ">>

\* the first query has no startTime, and every later query has the endTime
\* of the page before it, which reported more
CursorFollows ==
    /\ queries # <<>> => "startTime" \notin DOMAIN queries[1]
    /\ \A i \in 2..Len(queries) :
        /\ "startTime" \in DOMAIN queries[i]
        /\ HasMore(replies[i - 1])
        /\ queries[i].startTime = replies[i - 1][1].endTime

\* C16 as claimed: the cursor follows the replies, and so no startTime is
\* sent twice in a run.
C16_NoCursorTwice ==
    /\ CursorFollows
    /\ \A i, j \in 2..Len(queries) :
        i # j => queries[i].startTime # queries[j].startTime

\* C16: the first query of a run has no startTime and every later query has
\* the endTime of the reply just before it; every reply is followed by at
\* most one query, so a startTime is sent twice only when the server gave
\* that endTime on two pages.
C16_CursorFollowsReplies ==
    /\ CursorFollows
    /\ Len(queries) = Len(replies)
    /\ \A i, j \in 2..Len(queries) :
        queries[i].startTime = queries[j].startTime
            => replies[i - 1][1].endTime = replies[j - 1][1].endTime

C16_Witness ==
    /\ Len(queries) = 3
    /\ queries[2].startTime = 1 /\ queries[3].startTime = 1
    /\ replies[1][1].endTime = 1 /\ replies[2][1].endTime = 1

\* C17: get_log_messages returns, for a page, the envelope and its endTime
\* when hasMore is there and true, the envelope and None when hasMore is
\* false or not there; for an error envelope or a transport failure it
\* returns (None, None).
C17_FetchResult ==
    replies # <<>>
        => /\ IsFailure(LastReply) => (logs = None /\ more = None)
           /\ IsPage(LastReply)
                => /\ logs = Some(LastReply[1])
                   /\ HasMore(LastReply) => more = Some(LastReply[1].endTime)
                   /\ ~HasMore(LastReply) => more = None

C17_Witness ==
    /\ Len(replies) = 2
    /\ IsPage(LastReply) /\ ~HasMore(LastReply)
    /\ "hasMore" \in DOMAIN LastReply[1]
    /\ "endTime" \in DOMAIN LastReply[1] /\ LastReply[1].endTime = 1
    /\ more = None /\ logs = Some(LastReply[1])

\* C18: when the mail was requested and send_email sent nothing or failed,
\* the run goes on: the clean request is issued if it was requested, the
\* report stays as written, and the run is done.
C18_FailedMailIsAdvisory ==
    (mails # <<>> /\ mails[1] # "response")
        => /\ pc \in {"Cleaning", "Done"}
           /\ pc = "Cleaning" => remove_logs
           /\ pc = "Done" => Len(cleans) = (IF remove_logs THEN 1 ELSE 0)
           /\ writes = 1
           /\ file = Some(write_logs(LOGS))

C18_Witness ==
    /\ pc = "Done" /\ remove_logs
    /\ mails = <<"error">> /\ Len(cleans) = 1
    /\ ~IsNone(file) /\ file[1].rows # <<>>

\* C19: the clean request is issued only in a run whose queries were all
\* answered with pages and whose last page did not report more data.
C19_CleanOnlyAfterFullHarvest ==
    cleans # <<>> => (replies # <<>> /\ AllPages /\ ~HasMore(LastReply))

=============================================================================
